---- MODULE Spec2Model ----
(***************************************************************************)
(* Station-to-segment assignment (core/assigner.py).                       *)
(*                                                                         *)
(* generate_candidates_one_to_many and select_best_match are modelled as   *)
(* operators over tables (sequences of rows, a row being a function from   *)
(* column names to cell values); the state machine draws the input tables  *)
(* and the Params from bounded sets and applies the two functions in the   *)
(* order the CLI and the Streamlit app call them.                          *)
(*                                                                         *)
(* Encodings.                                                              *)
(*  - A nullable float cell is <<>> (NaN / None) or <<v>>.                 *)
(*  - Lengths are integers in units of 804.672 m (half a mile), so that    *)
(*    MILES_TO_METERS is 2 length units per mile and one length unit is    *)
(*    2640 ft.                                                             *)
(*  - A distance is carried as its square, an exact reduced fraction       *)
(*    <<num, den>>; squaring is monotone on distances, so every            *)
(*    comparison and every ordering of distances is preserved.             *)
(***************************************************************************)
EXTENDS Integers, Sequences, FiniteSets, TLC

VARIABLES stations, segments, params, cand, best, pc, dem_path, st_elev, seg_elev

vars == <<stations, segments, params, cand, best, pc, dem_path, st_elev, seg_elev>>

(* The variables of the elevation preparation (ensure_elevation_fields):   *)
(* the DEM argument and the two tables it returns (st, seg).               *)
prep_vars == <<dem_path, st_elev, seg_elev>>

(* No DEM (dem_path is None), and the state in which the elevation         *)
(* preparation is not part of the run.                                     *)
NoDem == <<>>

NoPrep == dem_path = NoDem /\ st_elev = <<>> /\ seg_elev = <<>>

---------------------------------------------------------------------------
(* Bounds of the model *)

MaxCoord == 3
MaxMiles == 1
MaxElev == 1
MaxTol == 1
MaxTopN == 2

---------------------------------------------------------------------------
(* Program constants *)

MILES_TO_METERS == 2
FEET_PER_UNIT == 2640
DELTA_SENTINEL == 999999
DEM_FT_PER_UNIT == 82021

---------------------------------------------------------------------------
(* Cell values *)

NaN == <<>>

Float(v) == <<v>>

isna(e) == e = NaN

Val(e) == e[1]

Abs(x) == IF x < 0 THEN -x ELSE x

Min2(a, b) == IF a <= b THEN a ELSE b

Max2(a, b) == IF a >= b THEN a ELSE b

RECURSIVE Gcd(_, _)
Gcd(a, b) == IF b = 0 THEN a ELSE Gcd(b, a % b)

Frac(n, d) == LET g == Gcd(n, d) IN <<n \div g, d \div g>>

FracLess(f, g) == f[1] * g[2] < g[1] * f[2]

---------------------------------------------------------------------------
(* Geometry: a geometry cell is None, an empty geometry, a point or a      *)
(* two-vertex line string.                                                 *)

NullGeom == [null |-> TRUE, coords |-> <<>>]

EmptyGeom == [null |-> FALSE, coords |-> <<>>]

Point(x, y) == [null |-> FALSE, coords |-> << <<x, y>> >>]

LineString(a, b) == [null |-> FALSE, coords |-> <<a, b>>]

notnull(g) == ~g.null

is_empty(g) == ~g.null /\ g.coords = <<>>

Sub(u, v) == <<u[1] - v[1], u[2] - v[2]>>

Dot(u, v) == u[1] * v[1] + u[2] * v[2]

Cross(u, v) == u[1] * v[2] - u[2] * v[1]

(* Squared planar distance from the point pg to the line string lg. *)
distance(pg, lg) ==
    LET p == pg.coords[1]
        a == lg.coords[1]
        b == lg.coords[2]
        ab == Sub(b, a)
        ap == Sub(p, a)
        bp == Sub(p, b)
        l2 == Dot(ab, ab)
        t == Dot(ap, ab)
    IN  IF l2 = 0 \/ t <= 0 THEN Frac(Dot(ap, ap), 1)
        ELSE IF t >= l2 THEN Frac(Dot(bp, bp), 1)
        ELSE Frac(Cross(ab, ap) * Cross(ab, ap), l2)

(* An envelope is empty or an axis-parallel box. *)
EmptyEnv == [empty |-> TRUE, minx |-> 0, maxx |-> 0, miny |-> 0, maxy |-> 0]

(* point.buffer(r).envelope: the buffer of a point is empty for r <= 0;    *)
(* otherwise its polygon has vertices at the four axis extremes.           *)
buffer_envelope(pg, r) ==
    IF r <= 0 \/ pg.coords = <<>> THEN EmptyEnv
    ELSE LET p == pg.coords[1]
         IN  [empty |-> FALSE, minx |-> p[1] - r, maxx |-> p[1] + r,
              miny |-> p[2] - r, maxy |-> p[2] + r]

envelope(lg) ==
    IF lg.coords = <<>> THEN EmptyEnv
    ELSE
    LET a == lg.coords[1]
        b == lg.coords[2]
    IN  [empty |-> FALSE, minx |-> Min2(a[1], b[1]), maxx |-> Max2(a[1], b[1]),
         miny |-> Min2(a[2], b[2]), maxy |-> Max2(a[2], b[2])]

env_intersects(e, f) ==
    /\ ~e.empty
    /\ ~f.empty
    /\ e.minx <= f.maxx
    /\ f.minx <= e.maxx
    /\ e.miny <= f.maxy
    /\ f.miny <= e.maxy

(* STRtree(seg_geoms).query(env): the positions of the geometries whose    *)
(* envelope intersects env, as an ascending sequence.                      *)
RECURSIVE tree_query_from(_, _, _)
tree_query_from(seg_geoms, env, j) ==
    IF j > Len(seg_geoms) THEN <<>>
    ELSE (IF env_intersects(envelope(seg_geoms[j]), env) THEN <<j>> ELSE <<>>)
         \o tree_query_from(seg_geoms, env, j + 1)

tree_query(seg_geoms, env) == tree_query_from(seg_geoms, env, 1)

---------------------------------------------------------------------------
(* Tables *)

empty(rows) == Len(rows) = 0

Get(row, col, default) == IF col \in DOMAIN row THEN row[col] ELSE default

(* Variant: only the is_empty test is applied. *)
drop_invalid_geometry_no_notnull(rows) ==
    SelectSeq(rows, LAMBDA r : ~is_empty(r.geometry))

(* gdf[gdf.geometry.notnull() & ~gdf.geometry.is_empty] *)
drop_invalid_geometry(rows) ==
    SelectSeq(rows, LAMBDA r : notnull(r.geometry) /\ ~is_empty(r.geometry))

---------------------------------------------------------------------------
(* generate_candidates_one_to_many *)

Result(status, columns, rows) ==
    [status |-> status, columns |-> columns, rows |-> rows]

(* The frame both early returns build, gpd.GeoDataFrame(columns=[...],     *)
(* crs=...): an empty frame with the four named columns.  (Releases of     *)
(* geopandas that refuse a crs without a geometry column raise here when   *)
(* the stations carry a crs; the frame is modelled as the source writes    *)
(* it.)                                                                    *)
empty_candidates(p) ==
    Result("ok", <<p.station_id, p.segment_id, "distance_m", "elev_pass">>, <<>>)

(* The keys of the dict appended per pair, in insertion order. *)
candidate_columns(p) ==
    <<p.station_id, p.segment_id, "distance_m", "distance_ft",
      "station_elev_ft", "seg_min_elev_ft", "seg_max_elev_ft", "elev_pass">>

radius_of(p) == p.distance_miles * MILES_TO_METERS

(* Variant: dist_m < radius_m. *)
within_radius_strict(dist_m, radius_m) ==
    radius_m >= 0 /\ dist_m[1] < radius_m * radius_m * dist_m[2]

(* dist_m <= radius_m, on the squared distance. *)
within_radius(dist_m, radius_m) ==
    radius_m >= 0 /\ dist_m[1] <= radius_m * radius_m * dist_m[2]

(* Variant: a missing elevation fails the check. *)
elevation_pass_nan_fails(p, z, zmin, zmax) ==
    IF ~p.check_elevation THEN TRUE
    ELSE IF isna(z) \/ isna(zmin) \/ isna(zmax) THEN FALSE
    ELSE /\ Val(z) >= Val(zmin) - p.elev_tol_ft
         /\ Val(z) <= Val(zmax) + p.elev_tol_ft

(* Variant: both bounds exclusive. *)
elevation_pass_exclusive(p, z, zmin, zmax) ==
    IF ~p.check_elevation THEN TRUE
    ELSE IF isna(z) \/ isna(zmin) \/ isna(zmax) THEN TRUE
    ELSE /\ Val(z) > Val(zmin) - p.elev_tol_ft
         /\ Val(z) < Val(zmax) + p.elev_tol_ft

(* Variant: the tolerance narrows the upper bound. *)
elevation_pass_narrowing(p, z, zmin, zmax) ==
    IF ~p.check_elevation THEN TRUE
    ELSE IF isna(z) \/ isna(zmin) \/ isna(zmax) THEN TRUE
    ELSE /\ Val(z) >= Val(zmin) - p.elev_tol_ft
         /\ Val(z) <= Val(zmax) - p.elev_tol_ft

(* The elevation rule. *)
elevation_pass(p, z, zmin, zmax) ==
    IF ~p.check_elevation THEN TRUE
    ELSE IF isna(z) \/ isna(zmin) \/ isna(zmax) THEN TRUE
    ELSE /\ Val(z) >= Val(zmin) - p.elev_tol_ft
         /\ Val(z) <= Val(zmax) + p.elev_tol_ft

(* dist_m / FEET_TO_METERS, on the squared distance. *)
to_feet(dist_m) == Frac(dist_m[1] * FEET_PER_UNIT * FEET_PER_UNIT, dist_m[2])

(* The dict appended to rows for one station/segment pair; a later key of  *)
(* the dict literal replaces an earlier equal one.                         *)
candidate_row(strow, segrow, dist_m, p) ==
    LET z == Get(strow, "station_elev_ft", NaN)
        zmin == Get(segrow, "seg_min_elev_ft", NaN)
        zmax == Get(segrow, "seg_max_elev_ft", NaN)
    IN  [distance_m |-> dist_m,
         distance_ft |-> to_feet(dist_m),
         station_elev_ft |-> z,
         seg_min_elev_ft |-> zmin,
         seg_max_elev_ft |-> zmax,
         elev_pass |-> elevation_pass(p, z, zmin, zmax)]
        @@ (p.segment_id :> segrow[p.segment_id])
        @@ (p.station_id :> strow[p.station_id])

(* Positions j of the inner loop that pass "dist_m <= radius_m" for one    *)
(* station row, in the order the loop visits them.                         *)
station_matches(strow, seg_geoms, radius_m) ==
    SelectSeq(tree_query(seg_geoms, buffer_envelope(strow.geometry, radius_m)),
              LAMBDA j : within_radius(distance(strow.geometry, seg_geoms[j]), radius_m))

(* The rows the two nested loops append, stations from position i on. *)
RECURSIVE loop_rows(_, _, _, _, _)
loop_rows(st, seg, radius_m, p, i) ==
    IF i > Len(st) THEN <<>>
    ELSE LET seg_geoms == [j \in 1..Len(seg) |-> seg[j].geometry]
             js == station_matches(st[i], seg_geoms, radius_m)
         IN  [k \in 1..Len(js) |->
                 candidate_row(st[i], seg[js[k]],
                               distance(st[i].geometry, seg_geoms[js[k]]), p)]
             \o loop_rows(st, seg, radius_m, p, i + 1)

(* Whether the loops raise: .buffer on a None geometry (AttributeError),   *)
(* or a missing id column when a row is appended (KeyError).               *)
loop_error(st, seg, radius_m, p) ==
    LET seg_geoms == [j \in 1..Len(seg) |-> seg[j].geometry]
    IN  IF \E i \in 1..Len(st) : st[i].geometry.null THEN "AttributeError"
        ELSE IF \E i \in 1..Len(st) :
                  /\ station_matches(st[i], seg_geoms, radius_m) # <<>>
                  /\ \/ p.station_id \notin DOMAIN st[i]
                     \/ \E j \in 1..Len(seg) : p.segment_id \notin DOMAIN seg[j]
             THEN "KeyError"
        ELSE "ok"

(* Variant: the row of position j is looked up in the table as it was      *)
(* passed in, while j is a position in the geometry list of the filtered   *)
(* table.                                                                  *)
RECURSIVE loop_rows_by_position(_, _, _, _, _, _)
loop_rows_by_position(st, seg, table, radius_m, p, i) ==
    IF i > Len(st) THEN <<>>
    ELSE LET seg_geoms == [j \in 1..Len(seg) |-> seg[j].geometry]
             js == station_matches(st[i], seg_geoms, radius_m)
         IN  [k \in 1..Len(js) |->
                 candidate_row(st[i], table[js[k]],
                               distance(st[i].geometry, seg_geoms[js[k]]), p)]
             \o loop_rows_by_position(st, seg, table, radius_m, p, i + 1)

generate_candidates_unfiltered_lookup(stations_utm, segments_utm, p) ==
    IF empty(segments_utm) \/ empty(stations_utm) THEN empty_candidates(p)
    ELSE LET radius_m == radius_of(p)
             seg == drop_invalid_geometry(segments_utm)
             st == drop_invalid_geometry(stations_utm)
         IN  IF empty(seg) \/ empty(st) THEN empty_candidates(p)
             ELSE LET rows == loop_rows_by_position(st, seg, segments_utm, radius_m, p, 1)
                  IN  Result("ok",
                             IF rows = <<>> THEN <<>> ELSE candidate_columns(p),
                             rows)

generate_candidates_one_to_many(stations_utm, segments_utm, p) ==
    IF empty(segments_utm) \/ empty(stations_utm) THEN empty_candidates(p)
    ELSE LET radius_m == radius_of(p)
             seg == drop_invalid_geometry(segments_utm)
             st == drop_invalid_geometry(stations_utm)
         IN  IF empty(seg) \/ empty(st) THEN empty_candidates(p)
             ELSE LET err == loop_error(st, seg, radius_m, p)
                  IN  IF err # "ok" THEN Result(err, <<>>, <<>>)
                      ELSE LET rows == loop_rows(st, seg, radius_m, p, 1)
                           IN  Result("ok",
                                      IF rows = <<>> THEN <<>> ELSE candidate_columns(p),
                                      rows)

---------------------------------------------------------------------------
(* select_best_match *)

calc_delta(row) ==
    IF \/ isna(row["station_elev_ft"])
       \/ isna(row["seg_min_elev_ft"])
       \/ isna(row["seg_max_elev_ft"])
    THEN DELTA_SENTINEL
    ELSE Min2(Abs(Val(row["station_elev_ft"]) - Val(row["seg_min_elev_ft"])),
              Abs(Val(row["station_elev_ft"]) - Val(row["seg_max_elev_ft"])))

(* Variant: the table passed in is also left in reverse row order. *)
assign_delta_reordering(table) ==
    [table EXCEPT
       !.columns = IF \E i \in 1..Len(@) : @[i] = "elev_delta_abs_ft"
                   THEN @ ELSE Append(@, "elev_delta_abs_ft"),
       !.rows = [i \in 1..Len(@) |->
                    ("elev_delta_abs_ft" :> calc_delta(@[Len(@) + 1 - i]))
                        @@ @[Len(@) + 1 - i]]]

(* cand["elev_delta_abs_ft"] = cand.apply(calc_delta, axis=1): the column  *)
(* is added to, or replaced in, the table that was passed in.              *)
assign_delta(table) ==
    [table EXCEPT
       !.columns = IF \E i \in 1..Len(@) : @[i] = "elev_delta_abs_ft"
                   THEN @ ELSE Append(@, "elev_delta_abs_ft"),
       !.rows = [i \in 1..Len(@) |->
                    ("elev_delta_abs_ft" :> calc_delta(@[i])) @@ @[i]]]

(* Variant: the two id columns are not sort keys. *)
sorts_before_no_ids(a, b, p) ==
    IF a["elev_pass"] # b["elev_pass"] THEN a["elev_pass"]
    ELSE IF a["distance_m"] # b["distance_m"]
         THEN FracLess(a["distance_m"], b["distance_m"])
    ELSE a["elev_delta_abs_ft"] < b["elev_delta_abs_ft"]

(* Variant: elev_delta_abs_ft is not a sort key. *)
sorts_before_no_delta(a, b, p) ==
    IF a["elev_pass"] # b["elev_pass"] THEN a["elev_pass"]
    ELSE IF a["distance_m"] # b["distance_m"]
         THEN FracLess(a["distance_m"], b["distance_m"])
    ELSE IF a[p.segment_id] # b[p.segment_id]
         THEN a[p.segment_id] < b[p.segment_id]
    ELSE a[p.station_id] < b[p.station_id]

(* Variant: elev_pass is not a sort key. *)
sorts_before_no_pass(a, b, p) ==
    IF a["distance_m"] # b["distance_m"]
    THEN FracLess(a["distance_m"], b["distance_m"])
    ELSE IF a["elev_delta_abs_ft"] # b["elev_delta_abs_ft"]
         THEN a["elev_delta_abs_ft"] < b["elev_delta_abs_ft"]
    ELSE IF a[p.segment_id] # b[p.segment_id]
         THEN a[p.segment_id] < b[p.segment_id]
    ELSE a[p.station_id] < b[p.station_id]

(* Whether row a sorts strictly before row b under sort_cols / asc_order:  *)
(* elev_pass descending, then distance_m, elev_delta_abs_ft, segment id    *)
(* and station id ascending.                                               *)
sorts_before(a, b, p) ==
    IF a["elev_pass"] # b["elev_pass"] THEN a["elev_pass"]
    ELSE IF a["distance_m"] # b["distance_m"]
         THEN FracLess(a["distance_m"], b["distance_m"])
    ELSE IF a["elev_delta_abs_ft"] # b["elev_delta_abs_ft"]
         THEN a["elev_delta_abs_ft"] < b["elev_delta_abs_ft"]
    ELSE IF a[p.segment_id] # b[p.segment_id]
         THEN a[p.segment_id] < b[p.segment_id]
    ELSE a[p.station_id] < b[p.station_id]

(* Insert r behind every row that does not sort after it. *)
RECURSIVE insert_sorted(_, _, _)
insert_sorted(sorted, r, p) ==
    IF sorted = <<>> THEN <<r>>
    ELSE IF sorts_before(r, Head(sorted), p) THEN <<r>> \o sorted
    ELSE <<Head(sorted)>> \o insert_sorted(Tail(sorted), r, p)

(* DataFrame.sort_values(by=sort_cols, ascending=asc_order): a stable      *)
(* sort, rows equal on every key keep their incoming order.                *)
RECURSIVE sort_values(_, _)
sort_values(rows, p) ==
    IF rows = <<>> THEN <<>>
    ELSE insert_sorted(sort_values(SubSeq(rows, 1, Len(rows) - 1), p),
                       rows[Len(rows)], p)

(* Number of rows before position i with the same value in column col. *)
cumcount(rows, col, i) ==
    Cardinality({k \in 1..(i - 1) : rows[k][col] = rows[i][col]})

group_size(rows, col, i) ==
    Cardinality({k \in 1..Len(rows) : rows[k][col] = rows[i][col]})

(* The rows at the positions in keep, from position i on, in order. *)
RECURSIVE keep_positions_from(_, _, _)
keep_positions_from(rows, keep, i) ==
    IF i > Len(rows) THEN <<>>
    ELSE (IF i \in keep THEN <<rows[i]>> ELSE <<>>)
         \o keep_positions_from(rows, keep, i + 1)

keep_positions(rows, keep) == keep_positions_from(rows, keep, 1)

(* drop_duplicates(subset=[col], keep="first") *)
drop_duplicates_first(rows, col) ==
    keep_positions(rows, {i \in 1..Len(rows) : cumcount(rows, col, i) = 0})

(* Variant: one row too many per group. *)
groupby_head_off_by_one(rows, col, n) ==
    keep_positions(rows, {i \in 1..Len(rows) : cumcount(rows, col, i) <= n})

(* groupby(col).head(n): the first n rows of each group for n >= 0, all    *)
(* but the last -n rows of each group for n < 0, in the frame's order.     *)
groupby_head(rows, col, n) ==
    keep_positions(rows, {i \in 1..Len(rows) :
        IF n >= 0 THEN cumcount(rows, col, i) < n
        ELSE cumcount(rows, col, i) < group_size(rows, col, i) + n})

group_col_of(p) ==
    IF p.group_by_col = "segment" THEN p.segment_id ELSE p.station_id

(* Returns the table passed in as the call leaves it, and the result. *)
select_best_match(table, p) ==
    IF empty(table.rows) THEN [cand |-> table, best |-> table]
    ELSE LET cand2 == assign_delta(table)
             cand_sorted == sort_values(cand2.rows, p)
             group_col == group_col_of(p)
             rows == IF p.top_n = 1
                     THEN drop_duplicates_first(cand_sorted, group_col)
                     ELSE groupby_head(cand_sorted, group_col, p.top_n)
         IN  [cand |-> cand2, best |-> [cand2 EXCEPT !.rows = rows]]

---------------------------------------------------------------------------
(* Inputs *)

Elevs == {NaN} \cup {Float(v) : v \in 0..MaxElev}

Bands == {b \in Elevs \X Elevs : isna(b[1]) \/ isna(b[2]) \/ Val(b[1]) <= Val(b[2])}

StationPoints == {Point(x, 0) : x \in 0..MaxCoord}

LineV == LineString(<<3, 0>>, <<3, 2>>)

LineD == LineString(<<3, 2>>, <<4, 3>>)

LineF == LineString(<<1, 2>>, <<3, 0>>)

StationGeoms == {NullGeom, EmptyGeom} \cup StationPoints

SegmentGeoms == {NullGeom, EmptyGeom, LineV, LineD, LineF}

StationRow(id, g, z) ==
    [station_id |-> id, station_elev_ft |-> z, geometry |-> g]

SegmentRow(id, g, b) ==
    [segment_id |-> id, seg_min_elev_ft |-> b[1], seg_max_elev_ft |-> b[2],
     geometry |-> g]

(* One station and one segment (or an empty table) over every geometry,    *)
(* with the station elevation inside the segment band.                     *)
GeometryStations ==
    {<<>>} \cup {<<StationRow(1, g, Float(1))>> : g \in StationGeoms}

GeometrySegments ==
    {<<>>} \cup {<<SegmentRow(1, g, <<Float(1), Float(1)>>)>> : g \in SegmentGeoms}

(* One station in reach of one segment, over every elevation and band. *)
ElevationStations == {<<StationRow(1, Point(2, 0), z)>> : z \in Elevs}

ElevationSegments == {<<SegmentRow(1, LineV, b)>> : b \in Bands}

(* Larger tables are filled from a menu of stations and of segments: a     *)
(* station out of reach of every line, one at each of three distances      *)
(* from LineV, stations sharing a location with different elevations, and  *)
(* features without geometry.                                              *)
StationKinds ==
    {<<Point(0, 0), Float(1)>>, <<Point(1, 0), Float(1)>>,
     <<Point(2, 0), Float(0)>>, <<Point(2, 0), Float(1)>>,
     <<Point(2, 0), NaN>>, <<Point(3, 0), Float(1)>>}

SegmentKinds ==
    {<<LineV, <<Float(1), Float(1)>> >>, <<LineF, <<Float(1), Float(1)>> >>,
     <<LineV, <<NaN, Float(1)>> >>}

NullStation == <<NullGeom, Float(1)>>

NullSegment == <<NullGeom, <<Float(1), Float(1)>> >>

TwoStations ==
    {<<StationRow(1, a[1], a[2]), StationRow(2, b[1], b[2])>> :
        a \in StationKinds \cup {NullStation}, b \in StationKinds \cup {NullStation}}

TwoSegments ==
    {<<SegmentRow(1, a[1], a[2]), SegmentRow(2, b[1], b[2])>> :
        a \in SegmentKinds \cup {NullSegment}, b \in SegmentKinds \cup {NullSegment}}

InReachKinds == {k \in StationKinds : k[1] # Point(0, 0) /\ ~isna(k[2])}

ThreeStations ==
    {<<StationRow(1, a[1], a[2]), StationRow(2, b[1], b[2]), StationRow(3, c[1], c[2])>> :
        a \in InReachKinds, b \in InReachKinds, c \in InReachKinds}

OneSegment == {<<SegmentRow(1, a[1], a[2])>> : a \in SegmentKinds}

GroupByCols == {"segment", "station"}

ParamsSet ==
    [distance_miles : 1..MaxMiles,
     elev_tol_ft : 0..MaxTol,
     station_id : {"station_id"},
     segment_id : {"segment_id"},
     top_n : {1},
     check_elevation : BOOLEAN,
     group_by_col : {"segment"}]

NoTable == Result("none", <<>>, <<>>)

Perms(rows) ==
    {[i \in 1..Len(rows) |-> rows[f[i]]] : f \in Permutations(1..Len(rows))}

Reverse(rows) == [i \in 1..Len(rows) |-> rows[Len(rows) + 1 - i]]

---------------------------------------------------------------------------
(* The state machine.  The Params drawn are valid configurations: a       *)
(* positive distance threshold, a non-negative tolerance, top_n >= 1 and   *)
(* one of the two grouping modes.                                          *)

InitPair ==
    \/ stations \in GeometryStations /\ segments \in GeometrySegments
    \/ stations \in ElevationStations /\ segments \in ElevationSegments

InitTables ==
    \/ stations \in TwoStations /\ segments \in TwoSegments
    \/ stations \in ThreeStations /\ segments \in OneSegment

Init ==
    /\ InitPair \/ InitTables
    /\ params \in ParamsSet
    /\ cand = NoTable
    /\ best = NoTable
    /\ pc = "start"
    /\ NoPrep

Generate ==
    /\ pc = "start"
    /\ cand' = generate_candidates_one_to_many(stations, segments, params)
    /\ pc' = IF cand'.status = "ok" THEN "generated" ELSE "failed"
    /\ UNCHANGED <<stations, segments, params, best>>
    /\ UNCHANGED prep_vars

(* select_best_match is called with the candidate table itself or with a   *)
(* copy of it in reverse row order; only the table passed in receives the  *)
(* new column.                                                             *)
Select ==
    /\ pc = "generated"
    /\ \E n \in 1..MaxTopN, g \in GroupByCols,
          t \in {cand.rows, Reverse(cand.rows)} :
          LET p == [params EXCEPT !.top_n = n, !.group_by_col = g]
              r == select_best_match([cand EXCEPT !.rows = t], p)
          IN  /\ params' = p
              /\ best' = r.best
              /\ cand' = IF t = cand.rows THEN r.cand ELSE cand
    /\ pc' = "done"
    /\ UNCHANGED <<stations, segments>>
    /\ UNCHANGED prep_vars

Next == Generate \/ Select

Spec == Init /\ [][Next]_vars

---------------------------------------------------------------------------
(* Vocabulary of the properties.  Station and segment ids are the row      *)
(* positions in the input tables, so a candidate row names its features.   *)

Generated == pc \in {"generated", "done"}

HasGeometry(row) == ~row.geometry.null /\ row.geometry.coords # <<>>

WithGeometry(rows) == SelectSeq(rows, HasGeometry)

(* The configured radius in length units, squared. *)
RadiusSq == (params.distance_miles * MILES_TO_METERS) * (params.distance_miles * MILES_TO_METERS)

PairDistance(i, j) == distance(stations[i].geometry, segments[j].geometry)

InReach(i, j) == PairDistance(i, j)[1] <= RadiusSq * PairDistance(i, j)[2]

FeaturePairs ==
    {ij \in (1..Len(stations)) \X (1..Len(segments)) :
        HasGeometry(stations[ij[1]]) /\ HasGeometry(segments[ij[2]])}

RowsOfPair(i, j) ==
    {k \in 1..Len(cand.rows) :
        cand.rows[k]["station_id"] = i /\ cand.rows[k]["segment_id"] = j}

ElevationMissing(i, j) ==
    \/ isna(stations[i].station_elev_ft)
    \/ isna(segments[j].seg_min_elev_ft)
    \/ isna(segments[j].seg_max_elev_ft)

InBand(i, j, tol) ==
    /\ Val(stations[i].station_elev_ft) >= Val(segments[j].seg_min_elev_ft) - tol
    /\ Val(stations[i].station_elev_ft) <= Val(segments[j].seg_max_elev_ft) + tol

GroupColumn == IF params.group_by_col = "segment" THEN "segment_id" ELSE "station_id"

CountIn(rows, col, g) == Cardinality({k \in 1..Len(rows) : rows[k][col] = g})

(* The candidate rows with their elevation delta; no two of them agree on  *)
(* both ids.                                                               *)
Ranked ==
    LET rows == assign_delta(cand).rows
    IN  {rows[k] : k \in 1..Len(rows)}

(* The ranking order of the selection: passing rows first, then nearer,    *)
(* then smaller elevation delta, then smaller line id, then smaller point  *)
(* id.                                                                     *)
RanksBefore(a, b) ==
    \/ a["elev_pass"] /\ ~b["elev_pass"]
    \/ /\ a["elev_pass"] = b["elev_pass"]
       /\ \/ FracLess(a["distance_m"], b["distance_m"])
          \/ /\ a["distance_m"] = b["distance_m"]
             /\ \/ a["elev_delta_abs_ft"] < b["elev_delta_abs_ft"]
                \/ /\ a["elev_delta_abs_ft"] = b["elev_delta_abs_ft"]
                   /\ \/ a["segment_id"] < b["segment_id"]
                      \/ /\ a["segment_id"] = b["segment_id"]
                         /\ a["station_id"] < b["station_id"]

(* Rows of the group of row that rank before it. *)
Ahead(row) ==
    {r \in Ranked : r[GroupColumn] = row[GroupColumn] /\ RanksBefore(r, row)}

Retained(row) == \E m \in 1..Len(best.rows) : best.rows[m] = row

(* The selection was run on a reordered copy of the candidate table. *)
RanOnCopy ==
    /\ pc = "done"
    /\ cand.rows # <<>>
    /\ \A i \in 1..Len(cand.columns) : cand.columns[i] # "elev_delta_abs_ft"

---------------------------------------------------------------------------
(* C1: every pair of a station and a segment with geometry has exactly one *)
(* candidate row when its planar distance is at most the radius            *)
(* distance_miles * MILES_TO_METERS (the boundary included), and no row    *)
(* when it is farther; the envelope query never loses a pair in reach.     *)
C1_RowIffWithinRadius ==
    Generated =>
        \A ij \in FeaturePairs :
            Cardinality(RowsOfPair(ij[1], ij[2])) =
                IF InReach(ij[1], ij[2]) THEN 1 ELSE 0

(* A pair exactly at the radius has its row, while another pair of the     *)
(* same run, whose line envelope meets the query envelope, is farther than *)
(* the radius and has none.                                                *)
C1_Witness ==
    /\ pc = "generated"
    /\ \E ij \in FeaturePairs :
          /\ PairDistance(ij[1], ij[2]) = <<RadiusSq, 1>>
          /\ RowsOfPair(ij[1], ij[2]) # {}
    /\ \E ij \in FeaturePairs :
          /\ ~InReach(ij[1], ij[2])
          /\ env_intersects(envelope(segments[ij[2]].geometry),
                            buffer_envelope(stations[ij[1]].geometry, radius_of(params)))
          /\ RowsOfPair(ij[1], ij[2]) = {}

(* C2: the selection keeps, for every value g of the group column, exactly *)
(* min(top_n, number of candidate rows with group value g) rows, in both   *)
(* grouping modes.                                                         *)
C2_TopNPerGroup ==
    pc = "done" =>
        /\ \A k \in 1..Len(cand.rows) :
              LET g == cand.rows[k][GroupColumn]
              IN  CountIn(best.rows, GroupColumn, g) =
                      Min2(params.top_n, CountIn(cand.rows, GroupColumn, g))
        /\ \A m \in 1..Len(best.rows) :
              CountIn(cand.rows, GroupColumn, best.rows[m][GroupColumn]) > 0

(* top_n = 2 with a group of three candidates (two kept) and, in the same  *)
(* run, nothing else: the group is cut to two rows.                        *)
C2_Witness ==
    /\ pc = "done"
    /\ params.top_n = 2
    /\ \E k \in 1..Len(cand.rows) :
          /\ CountIn(cand.rows, GroupColumn, cand.rows[k][GroupColumn]) = 3
          /\ CountIn(best.rows, GroupColumn, cand.rows[k][GroupColumn]) = 2

(* C3: the selection does not depend on the order of the candidate rows:   *)
(* run on any permutation of the candidate table it returns the same rows  *)
(* with the same values in the same order.                                 *)
C3_OrderIndependent ==
    pc = "done" =>
        \A t \in Perms(cand.rows) :
            select_best_match([cand EXCEPT !.rows = t], params).best = best

(* The selection ran on a reordered copy in which two rows of one group    *)
(* agree on elev_pass, distance and elevation delta, so that only the ids  *)
(* separate them.                                                          *)
C3_Witness ==
    /\ RanOnCopy
    /\ params.top_n = 1
    /\ \E a, b \in Ranked :
          /\ a # b
          /\ a[GroupColumn] = b[GroupColumn]
          /\ a["elev_pass"] = b["elev_pass"]
          /\ a["distance_m"] = b["distance_m"]
          /\ a["elev_delta_abs_ft"] = b["elev_delta_abs_ft"]
          /\ Ahead(a) = {}

(* C4: in every group the retained rows are exactly the first              *)
(* min(top_n, group size) rows under the ranking order (a row is retained  *)
(* iff fewer than top_n rows of its group rank before it), and the         *)
(* retained rows of a group appear in that order.                          *)
C4_FirstNOfEachGroup ==
    pc = "done" =>
        /\ \A row \in Ranked : Retained(row) <=> Cardinality(Ahead(row)) < params.top_n
        /\ \A m \in 1..Len(best.rows) : best.rows[m] \in Ranked
        /\ \A m, n \in 1..Len(best.rows) :
              (m < n /\ best.rows[m][GroupColumn] = best.rows[n][GroupColumn])
                  => RanksBefore(best.rows[m], best.rows[n])

(* top_n = 2 by line: one line has three passing candidates at three       *)
(* different distances; the two nearest are kept and the farthest is not.  *)
C4_Witness ==
    /\ pc = "done"
    /\ params.top_n = 2
    /\ params.group_by_col = "segment"
    /\ \E a, b, c \in Ranked :
          /\ a["segment_id"] = b["segment_id"]
          /\ b["segment_id"] = c["segment_id"]
          /\ a["elev_pass"] /\ b["elev_pass"] /\ c["elev_pass"]
          /\ FracLess(a["distance_m"], b["distance_m"])
          /\ FracLess(b["distance_m"], c["distance_m"])
          /\ Retained(a) /\ Retained(b) /\ ~Retained(c)

(* C5: a candidate row has elev_pass = TRUE whenever the elevation check   *)
(* is skipped: check_elevation is off, or the station elevation, the       *)
(* segment minimum or the segment maximum is missing; this for every       *)
(* tolerance.                                                              *)
C5_SkippedCheckPasses ==
    Generated =>
        \A ij \in FeaturePairs :
            (~params.check_elevation \/ ElevationMissing(ij[1], ij[2]))
                => \A k \in RowsOfPair(ij[1], ij[2]) : cand.rows[k]["elev_pass"]

(* With the check on, a row passes although only its segment minimum is    *)
(* missing and its station lies above the segment maximum plus tolerance.  *)
C5_Witness ==
    /\ pc = "generated"
    /\ params.check_elevation
    /\ \E ij \in FeaturePairs :
          /\ isna(segments[ij[2]].seg_min_elev_ft)
          /\ ~isna(segments[ij[2]].seg_max_elev_ft)
          /\ ~isna(stations[ij[1]].station_elev_ft)
          /\ Val(stations[ij[1]].station_elev_ft) >
                 Val(segments[ij[2]].seg_max_elev_ft) + params.elev_tol_ft
          /\ \E k \in RowsOfPair(ij[1], ij[2]) : cand.rows[k]["elev_pass"]

(* C6: with the check on and all three elevations present, elev_pass of    *)
(* the pair's row equals (z >= zmin - tol) /\ (z <= zmax + tol), both      *)
(* bounds inclusive; a pair in reach that fails the test still has its     *)
(* row, with elev_pass = FALSE.                                            *)
C6_BandRule ==
    Generated =>
        \A ij \in FeaturePairs :
            (params.check_elevation /\ ~ElevationMissing(ij[1], ij[2])) =>
                /\ \A k \in RowsOfPair(ij[1], ij[2]) :
                      cand.rows[k]["elev_pass"] = InBand(ij[1], ij[2], params.elev_tol_ft)
                /\ (InReach(ij[1], ij[2]) /\ ~InBand(ij[1], ij[2], params.elev_tol_ft))
                      => \E k \in RowsOfPair(ij[1], ij[2]) : ~cand.rows[k]["elev_pass"]

(* One run emits a row that passes with its station exactly on the upper   *)
(* bound zmax + tol and a row that fails, its station being out of band.   *)
C6_Witness ==
    /\ pc = "generated"
    /\ params.check_elevation
    /\ \E ij \in FeaturePairs :
          /\ ~ElevationMissing(ij[1], ij[2])
          /\ Val(stations[ij[1]].station_elev_ft) =
                 Val(segments[ij[2]].seg_max_elev_ft) + params.elev_tol_ft
          /\ \E k \in RowsOfPair(ij[1], ij[2]) : cand.rows[k]["elev_pass"]
    /\ \E ij \in FeaturePairs :
          /\ ~ElevationMissing(ij[1], ij[2])
          /\ ~InBand(ij[1], ij[2], params.elev_tol_ft)
          /\ \E k \in RowsOfPair(ij[1], ij[2]) : ~cand.rows[k]["elev_pass"]

(* The candidate table of the same inputs under the tolerance tol. *)
UnderTolerance(tol) ==
    generate_candidates_one_to_many(stations, segments,
                                    [params EXCEPT !.elev_tol_ft = tol])

(* C7: widening the tolerance, all else equal, leaves the emitted pairs    *)
(* and their distances as they are and never turns a passing row into a    *)
(* failing one.                                                            *)
C7_MonotoneInTolerance ==
    pc = "generated" =>
        \A tol \in params.elev_tol_ft..MaxTol :
            LET wider == UnderTolerance(tol).rows
            IN  /\ Len(wider) = Len(cand.rows)
                /\ \A k \in 1..Len(cand.rows) :
                      /\ wider[k]["station_id"] = cand.rows[k]["station_id"]
                      /\ wider[k]["segment_id"] = cand.rows[k]["segment_id"]
                      /\ wider[k]["distance_m"] = cand.rows[k]["distance_m"]
                      /\ cand.rows[k]["elev_pass"] => wider[k]["elev_pass"]

(* A row fails under the configured tolerance and passes under a wider     *)
(* one, next to a row that passes under both.                              *)
C7_Witness ==
    /\ pc = "generated"
    /\ params.elev_tol_ft < MaxTol
    /\ \E k \in 1..Len(cand.rows) :
          ~cand.rows[k]["elev_pass"] /\ UnderTolerance(MaxTol).rows[k]["elev_pass"]
    /\ \E k \in 1..Len(cand.rows) :
          /\ cand.rows[k]["elev_pass"]
          /\ ~isna(cand.rows[k]["station_elev_ft"])
          /\ ~isna(cand.rows[k]["seg_min_elev_ft"])

CandidateSchema ==
    {"station_id", "segment_id", "distance_m", "distance_ft", "station_elev_ft",
     "seg_min_elev_ft", "seg_max_elev_ft", "elev_pass"}

ColumnSet(table) == {table.columns[i] : i \in 1..Len(table.columns)}

(* C8: generation never fails on degenerate input, and an empty result     *)
(* (empty point or line set, before or after the rows without geometry are *)
(* dropped, or no pair in reach) has the column set of a non-empty result. *)
C8_FixedSchema ==
    pc # "start" =>
        /\ cand.status = "ok"
        /\ (pc = "generated" /\ cand.rows = <<>>) => ColumnSet(cand) = CandidateSchema

(* C9: a pair in reach that fails the elevation test is in the candidate   *)
(* table; the selection retains a failing row iff fewer than top_n rows of *)
(* its group rank before it; and whenever a failing row of a group is      *)
(* retained, every passing row of that group is retained.                  *)
C9_DemotedNotDiscarded ==
    /\ Generated =>
          \A ij \in FeaturePairs :
              ( /\ InReach(ij[1], ij[2])
                /\ params.check_elevation
                /\ ~ElevationMissing(ij[1], ij[2])
                /\ ~InBand(ij[1], ij[2], params.elev_tol_ft) )
                  => \E k \in RowsOfPair(ij[1], ij[2]) : ~cand.rows[k]["elev_pass"]
    /\ pc = "done" =>
          \A row \in Ranked :
              ~row["elev_pass"] =>
                  /\ Retained(row) <=> Cardinality(Ahead(row)) < params.top_n
                  /\ Retained(row) =>
                        \A r \in Ranked :
                            (r[GroupColumn] = row[GroupColumn] /\ r["elev_pass"])
                                => Retained(r)

(* top_n = 1: a group holds a failing row that is nearer than a passing    *)
(* row; the passing row is kept and the failing one, still a candidate,    *)
(* is not.                                                                 *)
C9_Witness ==
    /\ pc = "done"
    /\ params.top_n = 1
    /\ \E a, b \in Ranked :
          /\ a[GroupColumn] = b[GroupColumn]
          /\ ~a["elev_pass"]
          /\ b["elev_pass"]
          /\ FracLess(a["distance_m"], b["distance_m"])
          /\ Retained(b)
          /\ ~Retained(a)

CandidateCells(row) == [c \in CandidateSchema |-> row[c]]

---------------------------------------------------------------------------
(* The run under an arbitrary configuration.  Params is a plain dataclass  *)
(* and neither function inspects its fields before using them, so the      *)
(* configurations drawn here include the ones outside the declared         *)
(* domains: a threshold of zero, top_n below one, a grouping mode that is  *)
(* neither "segment" nor "station", and id column names the tables do not  *)
(* have.                                                                   *)

StationColumns == {"station_id", "station_elev_ft", "geometry"}

SegmentColumns == {"segment_id", "seg_min_elev_ft", "seg_max_elev_ft", "geometry"}

AnyGroupBy == GroupByCols \cup {"nearest"}

AnyParams ==
    [distance_miles : 0..MaxMiles,
     elev_tol_ft : {0},
     station_id : {"station_id", "point_id"},
     segment_id : {"segment_id", "line_id"},
     top_n : (-1)..MaxTopN,
     check_elevation : {TRUE},
     group_by_col : AnyGroupBy]

InitConfigured ==
    /\ \/ stations \in GeometryStations /\ segments \in GeometrySegments
       \/ stations \in TwoStations /\ segments \in OneSegment
    /\ params \in AnyParams
    /\ cand = NoTable
    /\ best = NoTable
    /\ pc = "start"
    /\ NoPrep

(* best = select_best_match(cand, params), with the Params of the run. *)
SelectConfigured ==
    /\ pc = "generated"
    /\ LET r == select_best_match(cand, params)
       IN  /\ best' = r.best
           /\ cand' = r.cand
    /\ pc' = "done"
    /\ UNCHANGED <<stations, segments, params>>
    /\ UNCHANGED prep_vars

NextConfigured == Generate \/ SelectConfigured

SpecConfigured == InitConfigured /\ [][NextConfigured]_vars

IdColumnAbsent ==
    \/ params.station_id \notin StationColumns
    \/ params.segment_id \notin SegmentColumns

(* C11: when the configured station-id or segment-id column is absent from *)
(* the input tables, the run never completes with an output table: it ends *)
(* in a failure for every input, also when a table is empty or no pair is  *)
(* within the radius.                                                      *)
C11_AbsentColumnReported == IdColumnAbsent => pc # "done"

ValidParams ==
    /\ params.top_n >= 1
    /\ params.distance_miles > 0
    /\ params.group_by_col \in GroupByCols

(* C12: a Params value with top_n < 1, a non-positive distance threshold   *)
(* or a grouping mode other than "segment" and "station" never yields a    *)
(* Best-Match table.                                                       *)
C12_ParamsValidated == ~ValidParams => pc # "done"

---------------------------------------------------------------------------
(* The selection as the CLI runs it: Params built without top_n and        *)
(* without group_by_col, that is top_n = 1 and group_by_col = "segment".   *)
DefaultSelection ==
    /\ pc = "done"
    /\ params.top_n = 1
    /\ params.group_by_col = "segment"

(* C13: with the default parameters the output has exactly one row for     *)
(* every station id that has a candidate row, and no other row: the row    *)
(* of that station which ranks first.                                      *)
C13_BestPerStation ==
    DefaultSelection =>
        /\ \A row \in Ranked : CountIn(best.rows, "station_id", row["station_id"]) = 1
        /\ \A row \in Ranked :
              Retained(row) <=>
                  ~\E r \in Ranked :
                      r["station_id"] = row["station_id"] /\ RanksBefore(r, row)

(* C14: the column set of the selection's output is the column set of the  *)
(* candidate table it was given plus elev_delta_abs_ft, for every          *)
(* candidate table, an empty one included.                                 *)
C14_BestMatchSchema ==
    pc = "done" => ColumnSet(best) = ColumnSet(cand) \cup {"elev_delta_abs_ft"}

---------------------------------------------------------------------------
(* Elevations far from the band.  The elevation cells are floats the       *)
(* tables or the DEM sampling supply (a raster's nodata value is passed    *)
(* on as it is read), so an elevation delta is not bounded by the value    *)
(* calc_delta returns for a missing elevation.                             *)

FarElevs ==
    {NaN} \cup {Float(v) : v \in {0, DELTA_SENTINEL - 1, DELTA_SENTINEL, DELTA_SENTINEL + 1}}

FarStations ==
    {<<StationRow(1, a[1], a[2]), StationRow(2, b[1], b[2])>> :
        a \in {Point(1, 0), Point(2, 0)} \X FarElevs,
        b \in {Point(1, 0), Point(2, 0)} \X FarElevs}

FarSegments ==
    {<<SegmentRow(1, LineV, b)>> :
        b \in {<<Float(0), Float(0)>>, <<NaN, Float(0)>>, <<Float(0), NaN>>}}

InitElevations ==
    /\ stations \in FarStations
    /\ segments \in FarSegments
    /\ params \in ParamsSet
    /\ cand = NoTable
    /\ best = NoTable
    /\ pc = "start"
    /\ NoPrep

SpecElevations == InitElevations /\ [][Next]_vars

MissingElevation(row) ==
    \/ isna(row["station_elev_ft"])
    \/ isna(row["seg_min_elev_ft"])
    \/ isna(row["seg_max_elev_ft"])

(* The candidate rows in the order of the ranking sort. *)
RankedOrder == sort_values(assign_delta(cand).rows, params)

(* C15: the elevation delta of a row is                                    *)
(* min(|z - zmin|, |z - zmax|) when the three elevations are present and   *)
(* 999999 otherwise; and of two rows with equal elev_pass and equal        *)
(* distance, one with a missing elevation and one with all elevations      *)
(* present, the one with the missing elevation never sorts first.          *)
C15_MissingElevationLast ==
    pc = "done" =>
        /\ \A row \in Ranked :
              row["elev_delta_abs_ft"] =
                  IF MissingElevation(row) THEN DELTA_SENTINEL
                  ELSE Min2(Abs(Val(row["station_elev_ft"]) - Val(row["seg_min_elev_ft"])),
                            Abs(Val(row["station_elev_ft"]) - Val(row["seg_max_elev_ft"])))
        /\ \A i, j \in 1..Len(RankedOrder) :
              ( /\ i < j
                /\ RankedOrder[i]["elev_pass"] = RankedOrder[j]["elev_pass"]
                /\ RankedOrder[i]["distance_m"] = RankedOrder[j]["distance_m"] )
                  => ~(MissingElevation(RankedOrder[i]) /\ ~MissingElevation(RankedOrder[j]))

---------------------------------------------------------------------------
(* row carries, in every column of the candidate row c, the value of c. *)
SameCells(row, c) == \A col \in DOMAIN c : col \in DOMAIN row /\ row[col] = c[col]

(* C16: generation leaves the two input tables as they are; the selection  *)
(* leaves the row count, the row order and every existing cell of the      *)
(* candidate table as they are, adding at most the column                  *)
(* elev_delta_abs_ft, and every row of its output carries the cells of a   *)
(* candidate row.                                                          *)
C16_CandidateRowsImmutable ==
    [][ /\ pc = "start" => (stations' = stations /\ segments' = segments)
        /\ pc = "generated" =>
              /\ Len(cand'.rows) = Len(cand.rows)
              /\ \A k \in 1..Len(cand.rows) : SameCells(cand'.rows[k], cand.rows[k])
              /\ ColumnSet(cand') \subseteq ColumnSet(cand) \cup {"elev_delta_abs_ft"}
              /\ \A m \in 1..Len(best'.rows) :
                    \E k \in 1..Len(cand.rows) : SameCells(best'.rows[m], cand.rows[k]) ]_vars

(* The selection ran on the candidate table itself, which now has the new  *)
(* column, and returned fewer rows than candidates, led by a row that is   *)
(* not the first candidate.                                                *)
C16_Witness ==
    /\ pc = "done"
    /\ "elev_delta_abs_ft" \in ColumnSet(cand)
    /\ best.rows # <<>>
    /\ Len(best.rows) < Len(cand.rows)
    /\ best.rows[1] # cand.rows[1]

---------------------------------------------------------------------------
(* The two selection branches on tables with missing ids.  An id cell is   *)
(* copied from the input row into the candidate row as it is, so a missing *)
(* id reaches the group column.  It is written as a number above every id: *)
(* sort_values puts missing keys last (na_position="last") and             *)
(* drop_duplicates takes missing keys as equal to each other.              *)
(* groupby(col).head(n) leaves out the rows whose key is missing in the    *)
(* pandas releases that apply dropna to head, and takes them as one group  *)
(* in the releases before; the release is not pinned by the repository.    *)

NullId == 99

groupby_head_na(rows, col, n, dropna) ==
    keep_positions(rows, {i \in 1..Len(rows) :
        /\ dropna => rows[i][col] # NullId
        /\ cumcount(rows, col, i) < n})

IdPairs == {<<1, 2>>, <<1, NullId>>, <<NullId, 2>>, <<NullId, NullId>>}

NullableStations ==
    {<<StationRow(ids[1], a, Float(1)), StationRow(ids[2], b, Float(1))>> :
        ids \in IdPairs, a \in {Point(1, 0), Point(2, 0), Point(3, 0)},
        b \in {Point(1, 0), Point(2, 0), Point(3, 0)}}

NullableSegments ==
    {<<SegmentRow(ids[1], a, <<Float(1), Float(1)>>),
       SegmentRow(ids[2], b, <<Float(1), Float(1)>>)>> :
        ids \in IdPairs, a \in {LineV, LineF}, b \in {LineV, LineF}}

InitBranches ==
    /\ stations \in NullableStations
    /\ segments \in NullableSegments
    /\ params \in ParamsSet
    /\ cand = NoTable
    /\ best = NoTable
    /\ pc = "start"
    /\ NoPrep

(* The general branch of select_best_match taken with N = 1:               *)
(* best = cand_sorted.groupby(group_col).head(1).                          *)
SelectHead ==
    /\ pc = "generated"
    /\ \E g \in GroupByCols, dropna \in BOOLEAN :
          LET p == [params EXCEPT !.top_n = 1, !.group_by_col = g]
              cand2 == assign_delta(cand)
              cand_sorted == sort_values(cand2.rows, p)
          IN  /\ params' = p
              /\ cand' = cand2
              /\ best' = [cand2 EXCEPT
                            !.rows = groupby_head_na(cand_sorted, group_col_of(p), 1, dropna)]
    /\ pc' = "done"
    /\ UNCHANGED <<stations, segments>>
    /\ UNCHANGED prep_vars

NextBranches == Generate \/ SelectHead

SpecBranches == InitBranches /\ [][NextBranches]_vars

(* C17: head(1) of each group of the sorted rows is the result of          *)
(* drop_duplicates(subset=[group_col], keep="first") on the sorted rows,   *)
(* the same rows in the same order, in both grouping modes and also when   *)
(* group-column values are missing.                                        *)
C17_BranchesAgree ==
    pc = "done" => best.rows = drop_duplicates_first(RankedOrder, GroupColumn)

---------------------------------------------------------------------------
(* ensure_elevation_fields.  A table is a non-empty sequence of rows with  *)
(* the same columns; a column a table does not have is missing from the    *)
(* domain of its rows.  The DEM is a raster of one value, given in units   *)
(* of 25000 m, so that the conversion of a sample to feet (by 3.28084) is *)
(* the multiplication by DEM_FT_PER_UNIT.  The stations of this part have  *)
(* point geometry, which sample_points_dem reads without a check.          *)

has_column(rows, col) == \A i \in 1..Len(rows) : col \in DOMAIN rows[i]

(* gdf[col] = values *)
set_column(rows, col, values) ==
    [i \in 1..Len(rows) |-> (col :> values[i]) @@ rows[i]]

sample_points_dem(gdf_pts, dem) ==
    [i \in 1..Len(gdf_pts) |-> Float(dem[1] * DEM_FT_PER_UNIT)]

(* The pairs (min_ft, max_ft), NaN for a line without geometry. *)
sample_line_minmax_dem(gdf_lines, dem) ==
    [i \in 1..Len(gdf_lines) |->
        IF gdf_lines[i].geometry.null \/ is_empty(gdf_lines[i].geometry)
        THEN <<NaN, NaN>>
        ELSE <<Float(dem[1] * DEM_FT_PER_UNIT), Float(dem[1] * DEM_FT_PER_UNIT)>>]

(* Returns the two tables of the result and the two arguments as the call  *)
(* leaves them: it works on copies.                                        *)
ensure_elevation_fields(stations_arg, segments_oh, dem, p) ==
    LET st0 == stations_arg
        seg0 == segments_oh
        nans == [i \in 1..Len(seg0) |-> NaN]
        st1 == IF ~has_column(st0, "station_elev_ft")
               THEN IF dem # NoDem
                    THEN set_column(st0, "station_elev_ft", sample_points_dem(st0, dem))
                    ELSE set_column(st0, "station_elev_ft", [i \in 1..Len(st0) |-> NaN])
               ELSE st0
        seg1 == IF ~(has_column(seg0, "seg_min_elev_ft") /\ has_column(seg0, "seg_max_elev_ft"))
                THEN IF dem # NoDem
                     THEN LET mnmx == sample_line_minmax_dem(seg0, dem)
                              mn == [i \in 1..Len(seg0) |-> mnmx[i][1]]
                              mx == [i \in 1..Len(seg0) |-> mnmx[i][2]]
                          IN  set_column(set_column(seg0, "seg_min_elev_ft", mn),
                                         "seg_max_elev_ft", mx)
                     ELSE LET a == IF ~has_column(seg0, "seg_min_elev_ft")
                                   THEN set_column(seg0, "seg_min_elev_ft", nans)
                                   ELSE seg0
                          IN  IF ~has_column(a, "seg_max_elev_ft")
                              THEN set_column(a, "seg_max_elev_ft", nans)
                              ELSE a
                ELSE seg0
    IN  [st |-> st1, seg |-> seg1, stations |-> stations_arg, segments_oh |-> segments_oh]

without(row, cols) == [c \in (DOMAIN row) \ cols |-> row[c]]

RawStations ==
    LET full == {<<StationRow(1, Point(2, 0), z)>> : z \in Elevs}
                \cup {<<StationRow(1, Point(1, 0), a), StationRow(2, Point(2, 0), b)>> :
                         a \in Elevs, b \in Elevs}
    IN  full \cup {[i \in 1..Len(t) |-> without(t[i], {"station_elev_ft"})] : t \in full}

RawSegments ==
    LET full == {<<SegmentRow(1, g, b)>> : g \in {LineV, NullGeom}, b \in Bands}
    IN  {[i \in 1..Len(t) |-> without(t[i], cols)] :
            t \in full, cols \in SUBSET {"seg_min_elev_ft", "seg_max_elev_ft"}}

DemPaths == {NoDem} \cup {<<v>> : v \in 0..MaxElev}

InitPrepare ==
    /\ stations \in RawStations
    /\ segments \in RawSegments
    /\ dem_path \in DemPaths
    /\ params \in ParamsSet
    /\ st_elev = <<>>
    /\ seg_elev = <<>>
    /\ cand = NoTable
    /\ best = NoTable
    /\ pc = "start"

(* stations, segments_oh = ensure_elevation_fields(stations, segments_oh,  *)
(*                                                 args.dem, params)       *)
Ensure ==
    /\ pc = "start"
    /\ LET r == ensure_elevation_fields(stations, segments, dem_path, params)
       IN  /\ st_elev' = r.st
           /\ seg_elev' = r.seg
           /\ stations' = r.stations
           /\ segments' = r.segments_oh
    /\ pc' = "ensured"
    /\ UNCHANGED <<params, cand, best, dem_path>>

NextPrepare == Ensure

SpecPrepare == InitPrepare /\ [][NextPrepare]_vars

(* The column col of the returned row: the value of the input row where    *)
(* the input has the column, the value fill where it has not.              *)
KeptOrFilled(out, in, col, fill) ==
    /\ col \in DOMAIN out
    /\ out[col] = IF col \in DOMAIN in THEN in[col] ELSE fill

(* C18: ensure_elevation_fields leaves its two arguments as they are, and  *)
(* in the tables it returns each of station_elev_ft, seg_min_elev_ft and   *)
(* seg_max_elev_ft keeps the values of the input when the input has the    *)
(* column and is filled otherwise, from the DEM when one is given and      *)
(* with NaN when none is.                                                  *)
C18_PopulatesOnlyMissing ==
    [][ pc = "start" =>
          /\ stations' = stations
          /\ segments' = segments
          /\ Len(st_elev') = Len(stations)
          /\ Len(seg_elev') = Len(segments)
          /\ \A i \in 1..Len(stations) :
                KeptOrFilled(st_elev'[i], stations[i], "station_elev_ft",
                             IF dem_path = NoDem THEN NaN
                             ELSE sample_points_dem(stations, dem_path)[i])
          /\ \A j \in 1..Len(segments) :
                /\ KeptOrFilled(seg_elev'[j], segments[j], "seg_min_elev_ft",
                                IF dem_path = NoDem THEN NaN
                                ELSE sample_line_minmax_dem(segments, dem_path)[j][1])
                /\ KeptOrFilled(seg_elev'[j], segments[j], "seg_max_elev_ft",
                                IF dem_path = NoDem THEN NaN
                                ELSE sample_line_minmax_dem(segments, dem_path)[j][2]) ]_vars

---------------------------------------------------------------------------
(* C19: every candidate row is made of one station P and one segment L of  *)
(* the input, both with geometry: its station id and station elevation are *)
(* those of P, its segment id and elevation band are those of L, and its   *)
(* distance is the planar distance between the geometries of P and L; so   *)
(* also when segments without geometry were dropped before the index was   *)
(* built.                                                                  *)
C19_RowOfOnePair ==
    pc = "generated" =>
        \A k \in 1..Len(cand.rows) :
            \E i \in 1..Len(stations), j \in 1..Len(segments) :
                /\ HasGeometry(stations[i])
                /\ HasGeometry(segments[j])
                /\ cand.rows[k]["station_id"] = stations[i].station_id
                /\ cand.rows[k]["station_elev_ft"] = stations[i].station_elev_ft
                /\ cand.rows[k]["segment_id"] = segments[j].segment_id
                /\ cand.rows[k]["seg_min_elev_ft"] = segments[j].seg_min_elev_ft
                /\ cand.rows[k]["seg_max_elev_ft"] = segments[j].seg_max_elev_ft
                /\ cand.rows[k]["distance_m"] = PairDistance(i, j)

(* The first segment has no geometry and was dropped; the second, whose    *)
(* band differs from the first's, is matched by two stations of different  *)
(* elevation at different distances.                                       *)
C19_Witness ==
    /\ pc = "generated"
    /\ Len(segments) = 2
    /\ Len(stations) = 2
    /\ ~HasGeometry(segments[1])
    /\ segments[1].seg_min_elev_ft # segments[2].seg_min_elev_ft
    /\ stations[1].station_elev_ft # stations[2].station_elev_ft
    /\ RowsOfPair(1, 2) # {}
    /\ RowsOfPair(2, 2) # {}
    /\ PairDistance(1, 2) # PairDistance(2, 2)

====
